---- MODULE Spec2Model ----
(***************************************************************************)
(* Telemetry ingestion engine of Server.py: the receive loop with its      *)
(* liveness sweep, the per-device reordering buffer, the sequence tracker  *)
(* (process_and_log_packet) and the shutdown drain.                        *)
(***************************************************************************)
EXTENDS Integers, Sequences, FiniteSets, TLC

\* ------------------------------------------------------------------------
\* Program constants (Server.py, "Configuration & Constants")
\* ------------------------------------------------------------------------
SEQ_MAX == 65536
WRAP_THRESHOLD == 30000
DEFAULT_FLUSH_THRESHOLD == 20
MSG_INIT == 0
MSG_DATA == 1
MSG_HEARTBEAT == 2
LIVENESS_TIMEOUT == 10
SOCKET_TIMEOUT == 1
HISTORY_MAXLEN == 500
HEADER_SIZE == 9

\* Python's None for last_processed_seq (sequence numbers are 0..65535)
None == -1

\* ------------------------------------------------------------------------
\* Bounds of the model
\* ------------------------------------------------------------------------
MaxTime == 3
DiedAfter == 1
MaxArrivals == 2
MaxSeqArrivals == 5
MaxWrapArrivals == 4
MaxRestartArrivals == 5
MaxHistArrivals == 502
MaxReorderArrivals == 3
MaxDropped == 2
MaxParseArrivals == 1
MaxFlipArrivals == 1
MaxLiveArrivals == 2
MaxSessionArrivals == 4
MaxPayloadArrivals == 2
MaxSignalArrivals == 2

VARIABLES
    devices_state,            \* dict device_id -> state (Server.py:177)
    dev_order,                \* insertion order of the dict's keys
    flush_threshold,          \* args.buffer
    liveness_timeout_client,  \* args.died_after
    now,                      \* time.time(), seconds since the common epoch
    pc,                       \* position of main(): sweep, recv, drain, summary, done
    exit_by,                  \* how the loop was left: none, signal, error
    finalized,                \* one record per process_and_log_packet call
    datagrams,                \* the datagrams accepted into a buffer, in arrival order
    summary,                  \* the totals printed by the final report
    console,                  \* the alerts printed about devices and datagrams
    dropped,                  \* the datagrams the parse step rejected, in arrival order
    calc                      \* operands and result of a latency pre-calculation

vars == << devices_state, dev_order, flush_threshold, liveness_timeout_client,
           now, pc, exit_by, finalized, datagrams, summary, console, dropped,
           calc >>

\* Number of datagrams accepted so far
arrivals == Len(datagrams)

\* ------------------------------------------------------------------------
\* Helpers
\* ------------------------------------------------------------------------
Abs(x) == IF x < 0 THEN -x ELSE x

Max(a, b) == IF a >= b THEN a ELSE b

InSeq(q, x) == \E i \in 1..Len(q) : q[i] = x

\* the deque as a bug would have it: no maxlen
DequeAppend_NoLimit(q, x) == Append(q, x)

\* the deque as a bug would have it: one element short of maxlen
DequeAppend_OneShort(q, x) ==
    IF Len(q) < HISTORY_MAXLEN - 1 THEN Append(q, x) ELSE Append(Tail(q), x)

\* deque(maxlen=500).append
DequeAppend(q, x) ==
    IF Len(q) < HISTORY_MAXLEN THEN Append(q, x) ELSE Append(Tail(q), x)

\* the insertion as a bug would have it: the new packet goes to the end
InsertBySendTime_AtEnd(sorted, pkt) == Append(sorted, pkt)

\* list.sort(key=lambda x: x['timestamp_sent']) is a stable sort
RECURSIVE InsertBySendTime(_, _)
InsertBySendTime(sorted, pkt) ==
    IF sorted = << >> THEN << pkt >>
    ELSE IF sorted[Len(sorted)].timestamp_sent <= pkt.timestamp_sent
         THEN Append(sorted, pkt)
         ELSE Append(InsertBySendTime(SubSeq(sorted, 1, Len(sorted) - 1), pkt),
                     sorted[Len(sorted)])

\* the sort as a bug would have it: the buffer stays in arrival order
SortBySendTime_Unsorted(buf) == buf

RECURSIVE SortBySendTime(_)
SortBySendTime(buf) ==
    IF buf = << >> THEN << >>
    ELSE InsertBySendTime(SortBySendTime(SubSeq(buf, 1, Len(buf) - 1)), buf[Len(buf)])

\* ------------------------------------------------------------------------
\* process_and_log_packet: the sequence tracker
\* ------------------------------------------------------------------------
\* gap_count as a bug would have it: the wraparound branch counts real_diff
GapCount_WrapOffByOne(last, seq_num) ==
    IF last = None THEN 0
    ELSE LET diff == seq_num - last IN
         IF diff < -WRAP_THRESHOLD
         THEN LET real_diff == seq_num + SEQ_MAX - last IN
              IF real_diff > 1 THEN real_diff ELSE 0
         ELSE IF diff > 1 THEN diff - 1 ELSE 0

\* gap_count of a non-duplicate packet (Server.py:101-111)
GapCount(last, seq_num) ==
    IF last = None THEN 0
    ELSE LET diff == seq_num - last IN
         IF diff < -WRAP_THRESHOLD
         THEN LET real_diff == seq_num + SEQ_MAX - last IN
              IF real_diff > 1 THEN real_diff - 1 ELSE 0
         ELSE IF diff > 1 THEN diff - 1 ELSE 0

\* gap_detected as a bug would have it: the wraparound never reports a gap
GapDetected_NoWrapGap(last, seq_num) ==
    IF last = None THEN FALSE
    ELSE LET diff == seq_num - last IN
         IF diff < -WRAP_THRESHOLD THEN FALSE ELSE diff > 1

\* gap_detected of a non-duplicate packet (Server.py:101-111)
GapDetected(last, seq_num) ==
    IF last = None THEN FALSE
    ELSE LET diff == seq_num - last IN
         IF diff < -WRAP_THRESHOLD
         THEN seq_num + SEQ_MAX - last > 1
         ELSE diff > 1

\* last_processed_seq after a non-duplicate packet (Server.py:112)
NextLastProcessed(last, seq_num) == seq_num

\* the tracker as a bug would have it: a duplicate moves last_processed_seq
ProcessState_DupMovesLast(state, pkt) ==
    LET dup == InSeq(state.processed_seqs, pkt.seq)
        gd  == IF dup THEN FALSE ELSE GapDetected(state.last_processed_seq, pkt.seq)
        gc  == IF dup THEN 0 ELSE GapCount(state.last_processed_seq, pkt.seq)
    IN [state EXCEPT
          !.processed_seqs = IF dup THEN @ ELSE DequeAppend(@, pkt.seq),
          !.last_processed_seq = pkt.seq,
          !.stats = [received   |-> @.received + 1,
                     duplicates |-> IF dup THEN @.duplicates + 1 ELSE @.duplicates,
                     gaps       |-> IF gd THEN @.gaps + gc ELSE @.gaps]]

\* The device state after the packet went through process_and_log_packet
ProcessState(state, pkt) ==
    LET dup == InSeq(state.processed_seqs, pkt.seq)
        gd  == IF dup THEN FALSE ELSE GapDetected(state.last_processed_seq, pkt.seq)
        gc  == IF dup THEN 0 ELSE GapCount(state.last_processed_seq, pkt.seq)
    IN [state EXCEPT
          !.processed_seqs = IF dup THEN @ ELSE DequeAppend(@, pkt.seq),
          !.last_processed_seq = IF dup THEN @ ELSE NextLastProcessed(@, pkt.seq),
          !.stats = [received   |-> @.received + 1,
                     duplicates |-> IF dup THEN @.duplicates + 1 ELSE @.duplicates,
                     gaps       |-> IF gd THEN @.gaps + gc ELSE @.gaps]]

\* One reading whose three values are 0.0, as three big-endian floats
ZeroReading == << 0, 0, 0, 0, 0, 0, 0, 0, 0, 0, 0, 0 >>

\* the CSV rows as a bug would have them: only the first reading is written
LogRecords_FirstOnly(readings) ==
    IF readings = << >> THEN << ZeroReading >> ELSE << readings[1] >>

\* The CSV rows process_and_log_packet writes for one packet: one log_packet
\* call per reading, one with zero values when there is none (Server.py:123-131)
LogRecords(readings) ==
    IF readings = << >> THEN << ZeroReading >> ELSE readings

\* The record handed to log_packet, with the tracker's values before and after
ProcessRow(state, pkt, fin_at) ==
    LET dup == InSeq(state.processed_seqs, pkt.seq)
        after == ProcessState(state, pkt)
    IN [device_id      |-> pkt.device_id,
        seq            |-> pkt.seq,
        timestamp_sent |-> pkt.timestamp_sent,
        arrival_time   |-> pkt.arrival_time,
        latency        |-> pkt.latency,
        jitter         |-> pkt.jitter,
        msg_type       |-> pkt.msg_type,
        status         |-> pkt.status,
        arrival_no     |-> pkt.arrival_no,
        payload_len    |-> pkt.payload_len,
        readings       |-> pkt.readings,
        logged         |-> LogRecords(pkt.readings),
        duplicate      |-> dup,
        gap_detected   |-> IF dup THEN FALSE
                           ELSE GapDetected(state.last_processed_seq, pkt.seq),
        gap_count      |-> IF dup THEN 0
                           ELSE GapCount(state.last_processed_seq, pkt.seq),
        last_before    |-> state.last_processed_seq,
        last_after     |-> after.last_processed_seq,
        gaps_before    |-> state.stats.gaps,
        gaps_after     |-> after.stats.gaps,
        dups_after     |-> after.stats.duplicates,
        fin_at         |-> fin_at]

\* ------------------------------------------------------------------------
\* Flushes.  Each returns [state, rows]: the device state afterwards and the
\* records finalized, in order.
\* ------------------------------------------------------------------------
\* the flush as a bug would have it: it starts one packet late
RECURSIVE FlushWhileOver_OneLate(_, _, _, _)
FlushWhileOver_OneLate(state, threshold, status, fin_at) ==
    IF Len(state.buffer) > threshold + 1
    THEN LET pkt  == [state.buffer[1] EXCEPT !.status = status]
             st1  == [state EXCEPT !.buffer = Tail(@)]
             rest == FlushWhileOver_OneLate(ProcessState(st1, pkt), threshold, status,
                                            fin_at)
         IN [state |-> rest.state,
             rows  |-> << ProcessRow(st1, pkt, fin_at) >> \o rest.rows]
    ELSE [state |-> state, rows |-> << >>]

\* while len(buffer) > threshold: pop(0), process (Server.py:326-328, 199-202)
RECURSIVE FlushWhileOver(_, _, _, _)
FlushWhileOver(state, threshold, status, fin_at) ==
    IF Len(state.buffer) > threshold
    THEN LET pkt  == [state.buffer[1] EXCEPT !.status = status]
             st1  == [state EXCEPT !.buffer = Tail(@)]
             rest == FlushWhileOver(ProcessState(st1, pkt), threshold, status, fin_at)
         IN [state |-> rest.state,
             rows  |-> << ProcessRow(st1, pkt, fin_at) >> \o rest.rows]
    ELSE [state |-> state, rows |-> << >>]

\* for pkt in buffer: process, the buffer is left as it is (Server.py:336-338)
RECURSIVE ProcessEach(_, _, _, _)
ProcessEach(state, i, status, fin_at) ==
    IF i > Len(state.buffer) THEN [state |-> state, rows |-> << >>]
    ELSE LET pkt  == [state.buffer[i] EXCEPT !.status = status]
             rest == ProcessEach(ProcessState(state, pkt), i + 1, status, fin_at)
         IN [state |-> rest.state,
             rows  |-> << ProcessRow(state, pkt, fin_at) >> \o rest.rows]

\* the liveness check as a bug would have it: the forced flush stops at one
\* pending packet
SweepDevice_LeavesOne(state, current_real_time, timeout, fin_at) ==
    IF state.status_alive /\ current_real_time - state.last_seen > timeout
    THEN LET dead == [state EXCEPT !.status_alive = FALSE]
             res  == FlushWhileOver([dead EXCEPT !.buffer = SortBySendTime(@)], 1,
                                    "Flushed (Timeout)", fin_at)
         IN [state |-> res.state, rows |-> res.rows, offline |-> TRUE]
    ELSE [state |-> state, rows |-> << >>, offline |-> FALSE]

\* the liveness check as a bug would have it: status_alive is not consulted
SweepDevice_IgnoresStatus(state, current_real_time, timeout, fin_at) ==
    IF current_real_time - state.last_seen > timeout
    THEN LET dead == [state EXCEPT !.status_alive = FALSE]
             res  == FlushWhileOver([dead EXCEPT !.buffer = SortBySendTime(@)], 0,
                                    "Flushed (Timeout)", fin_at)
         IN [state |-> res.state, rows |-> res.rows, offline |-> TRUE]
    ELSE [state |-> state, rows |-> << >>, offline |-> FALSE]

\* One device of the liveness check (Server.py:186-202); offline tells whether
\* the OFFLINE alert was printed
SweepDevice(state, current_real_time, timeout, fin_at) ==
    IF state.status_alive /\ current_real_time - state.last_seen > timeout
    THEN LET dead == [state EXCEPT !.status_alive = FALSE] IN
         IF Len(dead.buffer) > 0
         THEN LET res == FlushWhileOver([dead EXCEPT !.buffer = SortBySendTime(@)], 0,
                                        "Flushed (Timeout)", fin_at)
              IN [state |-> res.state, rows |-> res.rows, offline |-> TRUE]
         ELSE [state |-> dead, rows |-> << >>, offline |-> TRUE]
    ELSE [state |-> state, rows |-> << >>, offline |-> FALSE]

\* the drain as a bug would have it: the last pending packet is left out
DrainDevice_SkipsLast(state, fin_at) ==
    LET sorted == SortBySendTime(state.buffer) IN
    ProcessEach([state EXCEPT !.buffer = SubSeq(sorted, 1, Len(sorted) - 1)],
                1, "Flushed", fin_at)

\* One device of the shutdown drain (Server.py:334-338)
DrainDevice(state, fin_at) ==
    ProcessEach([state EXCEPT !.buffer = SortBySendTime(@)], 1, "Flushed", fin_at)

\* The rows of all devices, in the dict's iteration order
RECURSIVE RowsInOrder(_, _)
RowsInOrder(order, res) ==
    IF order = << >> THEN << >>
    ELSE res[Head(order)].rows \o RowsInOrder(Tail(order), res)

\* The OFFLINE alerts of one liveness check, in the dict's iteration order
RECURSIVE AlertsInOrder(_, _)
AlertsInOrder(order, res) ==
    IF order = << >> THEN << >>
    ELSE (IF res[Head(order)].offline
          THEN << [msg |-> "OFFLINE", device_id |-> Head(order)] >>
          ELSE << >>) \o AlertsInOrder(Tail(order), res)

\* ------------------------------------------------------------------------
\* Latency pre-calculation (Server.py:292-301)
\* ------------------------------------------------------------------------
\* int(relative_arrival * 1000) & 0xFFFFFFFF.  TLC's integers end at
\* 2^31 - 1, so 2^32 is written as 2147483647 + 2147483647 + 2.
ArrivalMsMasked(arrival_time) ==
    LET ms == arrival_time * 1000 IN
    IF ms >= 0 THEN ms ELSE ((ms + 2147483647) + 2147483647) + 2

\* Python's integers are unbounded and the operands range over 0..2^32 - 1, so
\* the pre-calculation is done on pairs << h, l >> that stand for h * 65536 + l,
\* with l in 0..65535 and h any integer.
Words(x) == << x \div 65536, x % 65536 >>

Value(w) == w[1] * 65536 + w[2]

WordsLess(a, b) == a[1] < b[1] \/ (a[1] = b[1] /\ a[2] < b[2])

WordsAdd(a, b) ==
    LET h == a[1] + b[1]
        l == a[2] + b[2]
    IN IF l >= 65536 THEN << h + 1, l - 65536 >> ELSE << h, l >>

WordsSub(a, b) ==
    LET h == a[1] - b[1]
        l == a[2] - b[2]
    IN IF l < 0 THEN << h - 1, l + 65536 >> ELSE << h, l >>

\* the latency as a bug would have it: no correction of the wraparound
LatencyWords_NoWrapFix(arrival_ms_masked, ts_sent) ==
    LET raw == WordsSub(arrival_ms_masked, ts_sent)
    IN IF WordsLess(raw, << 0, 0 >>) THEN << 0, 0 >> ELSE raw

\* latency_ms (Server.py:294-296); -2147483648 is << -32768, 0 >> and
\* 4294967296 is << 65536, 0 >>
LatencyWords(arrival_ms_masked, ts_sent) ==
    LET raw == WordsSub(arrival_ms_masked, ts_sent)
        fix == IF WordsLess(raw, << -32768, 0 >>)
               THEN WordsAdd(raw, << 65536, 0 >>)
               ELSE raw
    IN IF WordsLess(fix, << 0, 0 >>) THEN << 0, 0 >> ELSE fix

\* latency_ms of operands and result that fit TLC's integers
Latency(arrival_ms_masked, ts_sent) ==
    Value(LatencyWords(Words(arrival_ms_masked), Words(ts_sent)))

Jitter(last_latency, latency_ms) ==
    IF last_latency > 0 THEN Abs(latency_ms - last_latency) ELSE 0

\* ------------------------------------------------------------------------
\* Wire format: header (9 bytes), checksum (2 bytes), payload.  A datagram is
\* a sequence of bytes 0..255.
\* ------------------------------------------------------------------------
RECURSIVE SumBytes(_)
SumBytes(data) == IF data = << >> THEN 0 ELSE Head(data) + SumBytes(Tail(data))

\* the checksum as a bug would have it: the first byte is left out of the sum
compute_checksum_SkipsFirst(data) ==
    (IF data = << >> THEN 0 ELSE SumBytes(Tail(data))) % 65536

\* sum(data) & 0xFFFF (Server.py:41-42)
compute_checksum(data) == SumBytes(data) % 65536

\* The sender's compute_checksum (Client.py:164)
client_compute_checksum(data) == SumBytes(data) % 65536

\* struct.pack('!HHIB', device_id, seq_num, timestamp, msg_type)
PackHeader(device_id, seq_num, timestamp, msg_type) ==
    << device_id \div 256, device_id % 256,
       seq_num \div 256, seq_num % 256,
       timestamp \div 16777216, (timestamp \div 65536) % 256,
       (timestamp \div 256) % 256, timestamp % 256,
       msg_type >>

\* struct.pack('!H', checksum)
PackChecksum(checksum) == << checksum \div 256, checksum % 256 >>

\* Client.create_heartbeat_packet, with the clock's value as an argument
create_heartbeat_packet(device_id, seq_num, timestamp) ==
    LET packet == PackHeader(device_id, seq_num, timestamp, MSG_HEARTBEAT)
    IN packet \o PackChecksum(client_compute_checksum(packet))

\* Client.create_batch_data_packet, with the clock's value as an argument and
\* the readings already packed, 12 bytes each
RECURSIVE Concat(_)
Concat(chunks) == IF chunks = << >> THEN << >> ELSE Head(chunks) \o Concat(Tail(chunks))

create_batch_data_packet(device_id, seq_num, timestamp, packed_readings) ==
    LET header  == PackHeader(device_id, seq_num, timestamp, MSG_DATA)
        payload == << Len(packed_readings) >> \o Concat(packed_readings)
    IN header \o PackChecksum(client_compute_checksum(header \o payload)) \o payload

\* The parse step (Server.py:220-238): what becomes of a datagram
RejectReason(data) ==
    IF Len(data) < HEADER_SIZE + 2 THEN "short"
    ELSE LET header   == SubSeq(data, 1, HEADER_SIZE)
             checksum == data[HEADER_SIZE + 1] * 256 + data[HEADER_SIZE + 2]
         IN IF compute_checksum(header \o SubSeq(data, HEADER_SIZE + 3, Len(data)))
                 # checksum
            THEN "checksum"
            ELSE "none"

\* struct.unpack('!HHIB', header) and the message type's nibble (Server.py:224-230)
UnpackHeader(data) ==
    [device_id |-> data[1] * 256 + data[2],
     seq_num   |-> data[3] * 256 + data[4],
     ts_sent   |-> ((data[5] * 256 + data[6]) * 256 + data[7]) * 256 + data[8],
     msg_type  |-> data[9] % 16]

\* A new entry of devices_state (Server.py:247-256)
NewDeviceState(arrival_time) ==
    [buffer             |-> << >>,
     last_latency       |-> 0,
     last_processed_seq |-> None,
     processed_seqs     |-> << >>,
     last_seen          |-> arrival_time,
     status_alive       |-> TRUE,
     stats              |-> [received |-> 0, duplicates |-> 0, gaps |-> 0]]

\* last_seen and status_alive as a bug would have them: a dead device stays dead
Touch_StaysDead(state, arrival_time) == [state EXCEPT !.last_seen = arrival_time]

\* last_seen and status_alive of the device a datagram came from (Server.py:258-263)
Touch(state, arrival_time) ==
    [state EXCEPT !.last_seen = arrival_time, !.status_alive = TRUE]

\* ------------------------------------------------------------------------
\* Initial state: sockets bound, CSV initialised, no device known
\* ------------------------------------------------------------------------
InitWith(thresholds, timeouts) ==
    /\ devices_state = << >>
    /\ dev_order = << >>
    /\ flush_threshold \in thresholds
    /\ liveness_timeout_client \in timeouts
    /\ now = 0
    /\ pc = "sweep"
    /\ exit_by = "none"
    /\ finalized = << >>
    /\ datagrams = << >>
    /\ summary = << >>
    /\ console = << >>
    /\ dropped = << >>
    /\ calc = << >>

\* ------------------------------------------------------------------------
\* Actions of main()
\* ------------------------------------------------------------------------
\* Top of the loop: the liveness check over all devices (Server.py:182-202)
LivenessCheck ==
    /\ pc = "sweep"
    /\ LET res == [d \in DOMAIN devices_state |->
                     SweepDevice(devices_state[d], now, liveness_timeout_client, arrivals)]
       IN /\ devices_state' = [d \in DOMAIN devices_state |-> res[d].state]
          /\ finalized' = finalized \o RowsInOrder(dev_order, res)
          /\ console' = console \o AlertsInOrder(dev_order, res)
    /\ pc' = "recv"
    /\ UNCHANGED << dev_order, flush_threshold, liveness_timeout_client, now,
                    exit_by, datagrams, summary, dropped, calc >>

\* the timeout as a bug would have it: the loop waits again without a sweep
RecvTimeout_SkipsSweep ==
    /\ pc = "recv"
    /\ now + SOCKET_TIMEOUT <= MaxTime
    /\ now' = now + SOCKET_TIMEOUT
    /\ pc' = "recv"
    /\ UNCHANGED << devices_state, dev_order, flush_threshold, liveness_timeout_client,
                    exit_by, finalized, datagrams, summary, console, dropped, calc >>

\* recvfrom raises socket.timeout: continue (Server.py:207-208)
RecvTimeout ==
    /\ pc = "recv"
    /\ now + SOCKET_TIMEOUT <= MaxTime
    /\ now' = now + SOCKET_TIMEOUT
    /\ pc' = "sweep"
    /\ UNCHANGED << devices_state, dev_order, flush_threshold, liveness_timeout_client,
                    exit_by, finalized, datagrams, summary, console, dropped, calc >>

\* the rejection as a bug would have it: the device named by a datagram that
\* fails the checksum is touched before the datagram is dropped
RecvRejected_TouchesDevice(data, delta) ==
    /\ pc = "recv"
    /\ RejectReason(data) # "none"
    /\ now + delta <= MaxTime
    /\ now' = now + delta
    /\ dropped' = Append(dropped, [data |-> data, reason |-> RejectReason(data)])
    /\ console' = IF RejectReason(data) = "checksum"
                  THEN Append(console, [msg |-> "Checksum fail", device_id |-> None])
                  ELSE console
    /\ devices_state' =
          IF RejectReason(data) = "checksum"
          THEN [d \in DOMAIN devices_state |->
                  IF d = UnpackHeader(data).device_id
                  THEN Touch(devices_state[d], now + delta)
                  ELSE devices_state[d]]
          ELSE devices_state
    /\ pc' = "sweep"
    /\ UNCHANGED << dev_order, flush_threshold, liveness_timeout_client,
                    exit_by, finalized, datagrams, summary, calc >>

\* A datagram that is too short or fails the checksum: continue (Server.py:220-238).
\* Only the checksum failure is printed.
RecvRejected(data, delta) ==
    /\ pc = "recv"
    /\ RejectReason(data) # "none"
    /\ now + delta <= MaxTime
    /\ now' = now + delta
    /\ dropped' = Append(dropped, [data |-> data, reason |-> RejectReason(data)])
    /\ console' = IF RejectReason(data) = "checksum"
                  THEN Append(console, [msg |-> "Checksum fail", device_id |-> None])
                  ELSE console
    /\ pc' = "sweep"
    /\ UNCHANGED << devices_state, dev_order, flush_threshold, liveness_timeout_client,
                    exit_by, finalized, datagrams, summary, calc >>

\* the reset as a bug would have it: last_processed_seq survives an INIT
ResetOnInit_KeepsLast(state, msg_type) ==
    IF msg_type = MSG_INIT
    THEN [state EXCEPT !.processed_seqs = << >>, !.stats.duplicates = 0]
    ELSE state

\* the reset as a bug would have it: the history survives an INIT
ResetOnInit_KeepsHistory(state, msg_type) ==
    IF msg_type = MSG_INIT
    THEN [state EXCEPT !.last_processed_seq = None, !.stats.duplicates = 0]
    ELSE state

\* The tracker reset an INIT message triggers on arrival (Server.py:266-270)
ResetOnInit(state, msg_type) ==
    IF msg_type = MSG_INIT
    THEN [state EXCEPT !.processed_seqs = << >>,
                       !.last_processed_seq = None,
                       !.stats.duplicates = 0]
    ELSE state

\* the readings as a bug would have them: a short payload yields none
ParseReadings_AllOrNothing(msg_type, payload) ==
    IF msg_type = MSG_DATA /\ Len(payload) > 0
    THEN IF Len(payload) >= 1 + payload[1] * 12
         THEN [i \in 1..payload[1] |-> SubSeq(payload, 2 + (i - 1) * 12, 1 + i * 12)]
         ELSE << >>
    ELSE << >>

\* The readings parsed from the payload: the first byte is the count, and each
\* 12-byte chunk that lies wholly inside the payload is one reading, kept as
\* its bytes (Server.py:275-289)
ParseReadings(msg_type, payload) ==
    IF msg_type = MSG_DATA /\ Len(payload) > 0
    THEN LET count   == payload[1]
             fits(i) == Len(payload) >= 1 + i * 12
             n       == Cardinality({i \in 1..count : fits(i)})
         IN [i \in 1..n |-> SubSeq(payload, 2 + (i - 1) * 12, 1 + i * 12)]
    ELSE << >>

\* The device's entry when the datagram's header is parsed: state creation,
\* last_seen and status, INIT reset (Server.py:246-270)
Prepared(states, device_id, msg_type, arrival_time) ==
    LET st0 == IF device_id \in DOMAIN states THEN states[device_id]
               ELSE NewDeviceState(arrival_time)
    IN ResetOnInit(Touch(st0, arrival_time), msg_type)

\* packet_entry: readings, latency and jitter are computed on arrival, before
\* the packet is buffered (Server.py:275-319)
PacketEntry(state, device_id, seq_num, ts_sent, msg_type, payload, arrival_time, arrival_no) ==
    LET latency_ms == Latency(ArrivalMsMasked(arrival_time), ts_sent)
    IN [device_id      |-> device_id,
        seq            |-> seq_num,
        timestamp_sent |-> ts_sent,
        arrival_time   |-> arrival_time,
        latency        |-> latency_ms,
        jitter         |-> Jitter(state.last_latency, latency_ms),
        msg_type       |-> IF msg_type = MSG_INIT THEN "INIT"
                           ELSE IF msg_type = MSG_DATA THEN "DATA"
                           ELSE "HEARTBEAT",
        status         |-> "Buffered",
        arrival_no     |-> arrival_no,
        payload_len    |-> Len(payload),
        readings       |-> ParseReadings(msg_type, payload)]

\* The device's state once the datagram is in its buffer: last_latency is
\* updated, the packet appended and the buffer sorted (Server.py:246-323)
BufferPacket(states, device_id, seq_num, ts_sent, msg_type, payload, arrival_time, arrival_no) ==
    LET st2 == Prepared(states, device_id, msg_type, arrival_time)
        packet_entry == PacketEntry(st2, device_id, seq_num, ts_sent, msg_type,
                                    payload, arrival_time, arrival_no)
    IN [st2 EXCEPT !.last_latency = packet_entry.latency,
                   !.buffer = SortBySendTime(Append(@, packet_entry))]

\* devices_state as a bug would have it: one last_latency shared by all devices
UpdateDevice_SharedLatency(states, device_id, state) ==
    [d \in DOMAIN states \cup {device_id} |->
        IF d = device_id THEN state
        ELSE [states[d] EXCEPT !.last_latency = state.last_latency]]

\* devices_state after an iteration that worked on one device's entry
\* (Server.py:246-258: state = devices_state[device_id], changed in place)
UpdateDevice(states, device_id, state) ==
    [d \in DOMAIN states \cup {device_id} |->
        IF d = device_id THEN state ELSE states[d]]

\* What the iteration prints when it accepts a datagram (Server.py:259-263, 267)
AcceptPrints(states, device_id, msg_type) ==
    (IF device_id \in DOMAIN states /\ ~states[device_id].status_alive
     THEN << [msg |-> "BACK ONLINE", device_id |-> device_id] >>
     ELSE << >>)
    \o (IF msg_type = MSG_INIT
        THEN << [msg |-> "RESET", device_id |-> device_id] >>
        ELSE << >>)

\* The accepted datagram as the arrival log keeps it
Arrival(states, device_id, seq_num, ts_sent, msg_type, payload, arrival_time) ==
    LET e == PacketEntry(Prepared(states, device_id, msg_type, arrival_time),
                         device_id, seq_num, ts_sent, msg_type, payload,
                         arrival_time, 0)
    IN [device_id |-> device_id, seq |-> seq_num, timestamp_sent |-> ts_sent,
        msg_type |-> msg_type, payload |-> payload,
        latency |-> e.latency, jitter |-> e.jitter]

\* A datagram that passes the checks, payload included (Server.py:213-328)
RecvPacket(device_id, seq_num, ts_sent, msg_type, payload, delta) ==
    /\ pc = "recv"
    /\ now + delta <= MaxTime
    /\ LET arrival_time == now + delta
           st3 == BufferPacket(devices_state, device_id, seq_num, ts_sent, msg_type,
                               payload, arrival_time, arrivals + 1)
           res == FlushWhileOver(st3, flush_threshold, "Buffered", arrivals + 1)
       IN /\ devices_state' = UpdateDevice(devices_state, device_id, res.state)
          /\ dev_order' = IF device_id \in DOMAIN devices_state THEN dev_order
                          ELSE Append(dev_order, device_id)
          /\ finalized' = finalized \o res.rows
          /\ now' = arrival_time
          /\ console' = console \o AcceptPrints(devices_state, device_id, msg_type)
          /\ datagrams' = Append(datagrams,
                                 Arrival(devices_state, device_id, seq_num, ts_sent,
                                         msg_type, payload, arrival_time))
    /\ pc' = "sweep"
    /\ UNCHANGED << flush_threshold, liveness_timeout_client, exit_by, summary,
                    dropped, calc >>

\* A datagram that passes the checks and carries no payload (Server.py:213-328)
RecvDatagram(device_id, seq_num, ts_sent, msg_type, delta) ==
    RecvPacket(device_id, seq_num, ts_sent, msg_type, << >>, delta)

\* recvfrom returns a datagram: the parse step rejects it or the rest of the
\* iteration handles it (Server.py:206-328)
Recv(data, delta) ==
    IF RejectReason(data) # "none"
    THEN RecvRejected(data, delta)
    ELSE LET h == UnpackHeader(data)
         IN RecvPacket(h.device_id, h.seq_num, h.ts_sent, h.msg_type,
                       SubSeq(data, HEADER_SIZE + 3, Len(data)), delta)

\* The latency pre-calculation alone, on any two 32-bit operands (Server.py:294-296)
PreCalculation(arrival_ms_masked, ts_sent) ==
    /\ calc' = [arrival_ms_masked |-> arrival_ms_masked,
                ts_sent           |-> ts_sent,
                latency_ms        |-> LatencyWords(arrival_ms_masked, ts_sent)]
    /\ UNCHANGED << devices_state, dev_order, flush_threshold, liveness_timeout_client,
                    now, pc, exit_by, finalized, datagrams, summary, console, dropped >>

\* recvfrom raises another exception: break (Server.py:209-211)
RecvError ==
    /\ pc = "recv"
    /\ pc' = "drain"
    /\ exit_by' = "error"
    /\ UNCHANGED << devices_state, dev_order, flush_threshold, liveness_timeout_client,
                    now, finalized, datagrams, summary, console, dropped, calc >>

\* SIGINT or SIGTERM: signal_handler raises KeyboardInterrupt (Server.py:145-151, 330-331)
Interrupt ==
    /\ pc \in {"sweep", "recv"}
    /\ pc' = "drain"
    /\ exit_by' = "signal"
    /\ UNCHANGED << devices_state, dev_order, flush_threshold, liveness_timeout_client,
                    now, finalized, datagrams, summary, console, dropped, calc >>

\* ------------------------------------------------------------------------
\* The signal inside a flush.  signal_handler raises KeyboardInterrupt at
\* whatever statement the main thread is executing (Server.py:145-151).  A
\* packet that a flush has taken in hand is then left where the exception
\* found it: "popped" is the packet taken from the buffer, or marked by the
\* drain, and not yet handed to process_and_log_packet; "tracked" is the
\* packet counted by process_and_log_packet (Server.py:90-117) and not yet
\* written by log_packet (Server.py:126-131).
\* ------------------------------------------------------------------------
InterruptPoints == {"popped", "tracked"}

\* The device state the exception leaves behind for the packet in hand
Interrupted(state, pkt, at) ==
    IF at = "tracked" THEN ProcessState(state, pkt) ELSE state

\* The signal in the threshold flush of the iteration that accepted a
\* datagram: the first packet is popped, the exception leaves the loop
\* (Server.py:326-331)
InterruptInFlush(device_id, seq_num, ts_sent, msg_type, delta, at) ==
    /\ pc = "recv"
    /\ now + delta <= MaxTime
    /\ LET arrival_time == now + delta
           st3 == BufferPacket(devices_state, device_id, seq_num, ts_sent, msg_type,
                               << >>, arrival_time, arrivals + 1)
       IN /\ Len(st3.buffer) > flush_threshold
          /\ devices_state' =
                UpdateDevice(devices_state, device_id,
                             Interrupted([st3 EXCEPT !.buffer = Tail(@)],
                                         st3.buffer[1], at))
          /\ dev_order' = IF device_id \in DOMAIN devices_state THEN dev_order
                          ELSE Append(dev_order, device_id)
          /\ now' = arrival_time
          /\ console' = console \o AcceptPrints(devices_state, device_id, msg_type)
          /\ datagrams' = Append(datagrams,
                                 Arrival(devices_state, device_id, seq_num, ts_sent,
                                         msg_type, << >>, arrival_time))
    /\ pc' = "drain"
    /\ exit_by' = "signal"
    /\ UNCHANGED << flush_threshold, liveness_timeout_client, finalized, summary,
                    dropped, calc >>

\* The signal in the forced flush of the first device the liveness check
\* finds overdue: the device is marked dead, its first pending packet is
\* popped, the exception leaves the loop (Server.py:191-202, 330-331)
InterruptInSweep(d, at) ==
    /\ pc = "sweep"
    /\ d \in DOMAIN devices_state
    /\ \A e \in DOMAIN devices_state :
          (\E i, j \in 1..Len(dev_order) :
              i < j /\ dev_order[i] = e /\ dev_order[j] = d)
          => ~SweepDevice(devices_state[e], now, liveness_timeout_client,
                          arrivals).offline
    /\ SweepDevice(devices_state[d], now, liveness_timeout_client, arrivals).offline
    /\ devices_state[d].buffer # << >>
    /\ LET sorted == SortBySendTime(devices_state[d].buffer)
           dead   == [devices_state[d] EXCEPT !.status_alive = FALSE,
                                             !.buffer = Tail(sorted)]
           pkt    == [sorted[1] EXCEPT !.status = "Flushed (Timeout)"]
       IN devices_state' = [devices_state EXCEPT ![d] = Interrupted(dead, pkt, at)]
    /\ console' = Append(console, [msg |-> "OFFLINE", device_id |-> d])
    /\ pc' = "drain"
    /\ exit_by' = "signal"
    /\ UNCHANGED << dev_order, flush_threshold, liveness_timeout_client, now,
                    finalized, datagrams, summary, dropped, calc >>

\* The signal in the shutdown drain: the devices before the i-th are drained,
\* the i-th device's first n packets are finalized, and the exception raised
\* inside the finally block ends the process before the rest of the drain and
\* before the summary (Server.py:332-361)
InterruptInDrain(i, n, at) ==
    /\ pc = "drain"
    /\ i \in 1..Len(dev_order)
    /\ n < Len(devices_state[dev_order[i]].buffer)
    /\ LET d      == dev_order[i]
           sorted == SortBySendTime(devices_state[d].buffer)
           part   == ProcessEach([devices_state[d] EXCEPT !.buffer = SubSeq(sorted, 1, n)],
                                 1, "Flushed", arrivals)
           pkt    == [sorted[n + 1] EXCEPT !.status = "Flushed"]
           res    == [e \in DOMAIN devices_state |->
                        IF e = d
                        THEN [state |-> [Interrupted(part.state, pkt, at)
                                           EXCEPT !.buffer = sorted],
                              rows  |-> part.rows]
                        ELSE DrainDevice(devices_state[e], arrivals)]
           before(e) == \E j \in 1..i : dev_order[j] = e
       IN /\ devices_state' = [e \in DOMAIN devices_state |->
                                 IF before(e) THEN res[e].state ELSE devices_state[e]]
          /\ finalized' = finalized \o RowsInOrder(SubSeq(dev_order, 1, i), res)
    /\ pc' = "killed"
    /\ UNCHANGED << dev_order, flush_threshold, liveness_timeout_client, now,
                    exit_by, datagrams, summary, console, dropped, calc >>

\* finally: flush the remaining buffers of all devices (Server.py:332-338)
Drain ==
    /\ pc = "drain"
    /\ LET res == [d \in DOMAIN devices_state |-> DrainDevice(devices_state[d], arrivals)]
       IN /\ devices_state' = [d \in DOMAIN devices_state |-> res[d].state]
          /\ finalized' = finalized \o RowsInOrder(dev_order, res)
    /\ pc' = "summary"
    /\ UNCHANGED << dev_order, flush_threshold, liveness_timeout_client, now,
                    exit_by, datagrams, summary, console, dropped, calc >>

\* The final session summary (Server.py:340-361)
Summary ==
    /\ pc = "summary"
    /\ summary' = [d \in DOMAIN devices_state |-> devices_state[d].stats]
    /\ pc' = "done"
    /\ UNCHANGED << devices_state, dev_order, flush_threshold, liveness_timeout_client,
                    now, exit_by, finalized, datagrams, console, dropped, calc >>

\* ------------------------------------------------------------------------
\* Spec: the server among two devices, with small sequence numbers and send
\* times, every flush threshold up to 2, timeouts and both ways out of the loop
\* ------------------------------------------------------------------------
Devices == {7, 1001}
Seqs == {1, 2}
SendTimes == {10, 20}
Deltas == {0, 1}
Thresholds == {0, 1, 2}

Init == InitWith(Thresholds, {DiedAfter})

Next ==
    \/ LivenessCheck
    \/ RecvTimeout
    \/ \E d \in Devices, s \in Seqs, ts \in SendTimes, dl \in Deltas :
          arrivals < MaxArrivals /\ RecvDatagram(d, s, ts, MSG_DATA, dl)
    \/ RecvError
    \/ Interrupt
    \/ Drain
    \/ Summary

Spec == Init /\ [][Next]_vars

\* ------------------------------------------------------------------------
\* SpecSeq: one device whose DATA packets carry sequence numbers 1..5 in any
\* order, with send times in arrival order, finalized on arrival (threshold 0)
\* or one packet behind (threshold 1)
\* ------------------------------------------------------------------------
SeqChoices == 1..5

InitSeq == InitWith({0, 1}, {LIVENESS_TIMEOUT})

NextSeq ==
    \/ LivenessCheck
    \/ \E s \in SeqChoices :
          arrivals < MaxSeqArrivals /\ RecvDatagram(7, s, arrivals + 1, MSG_DATA, 0)
    \/ RecvError
    \/ Interrupt
    \/ Drain
    \/ Summary

SpecSeq == InitSeq /\ [][NextSeq]_vars

\* ------------------------------------------------------------------------
\* SpecWrap: one device whose sequence numbers lie on both sides of the 16-bit
\* wraparound and of the wraparound threshold
\* ------------------------------------------------------------------------
WrapSeqs == {0, 2, 30000, 30001, 65534, 65535}

InitWrap == InitWith({0, 1}, {LIVENESS_TIMEOUT})

NextWrap ==
    \/ LivenessCheck
    \/ \E s \in WrapSeqs :
          arrivals < MaxWrapArrivals /\ RecvDatagram(7, s, arrivals + 1, MSG_DATA, 0)
    \/ RecvError
    \/ Interrupt
    \/ Drain
    \/ Summary

SpecWrap == InitWrap /\ [][NextWrap]_vars

\* ------------------------------------------------------------------------
\* SpecRestart: a device sends consecutive sequence numbers, restarts, sends
\* one INIT with sequence 0 and goes on with 1, 2, ...; every datagram arrives,
\* once, in send order
\* ------------------------------------------------------------------------
RestartStarts == {1, 40000}

InitSent == \E i \in 1..Len(datagrams) : datagrams[i].msg_type = MSG_INIT

InitRestart == InitWith({0, 1, 2}, {LIVENESS_TIMEOUT})

NextRestart ==
    \/ LivenessCheck
    \/ \E s \in RestartStarts :
          arrivals = 0 /\ RecvDatagram(7, s, 1, MSG_DATA, 0)
    \/ /\ arrivals > 0
       /\ arrivals < MaxRestartArrivals
       /\ RecvDatagram(7, datagrams[arrivals].seq + 1, arrivals + 1, MSG_DATA, 0)
    \/ /\ arrivals > 0
       /\ arrivals < MaxRestartArrivals
       /\ ~InitSent
       /\ RecvDatagram(7, 0, arrivals + 1, MSG_INIT, 0)
    \/ RecvError
    \/ Interrupt
    \/ Drain
    \/ Summary

SpecRestart == InitRestart /\ [][NextRestart]_vars

\* ------------------------------------------------------------------------
\* SpecHist: a device sends 0, 1, 2, ... and every packet is finalized on
\* arrival; at any moment one old datagram (sequence 0 or 1) arrives again,
\* which ends the run
\* ------------------------------------------------------------------------
Resends == {0, 1}

LastIsFresh == IF arrivals = 0 THEN TRUE ELSE datagrams[arrivals].seq = arrivals - 1

InitHist == InitWith({0}, {LIVENESS_TIMEOUT})

NextHist ==
    \/ LivenessCheck
    \/ /\ arrivals < MaxHistArrivals
       /\ LastIsFresh
       /\ RecvDatagram(7, arrivals, arrivals + 1, MSG_DATA, 0)
    \/ \E s \in Resends :
          /\ arrivals < MaxHistArrivals
          /\ LastIsFresh
          /\ s < arrivals - 1
          /\ RecvDatagram(7, s, arrivals + 1, MSG_DATA, 0)

SpecHist == InitHist /\ [][NextHist]_vars

\* ------------------------------------------------------------------------
\* SpecE2E: device 7's sequences arrive in the order 1, 2, 4, 3 with send time
\* 10 * sequence, under the default flush threshold
\* ------------------------------------------------------------------------
E2EOrder == << 1, 2, 4, 3 >>

InitE2E == InitWith({DEFAULT_FLUSH_THRESHOLD}, {DiedAfter})

NextE2E ==
    \/ LivenessCheck
    \/ RecvTimeout
    \/ \E dl \in Deltas :
          /\ arrivals < Len(E2EOrder)
          /\ RecvDatagram(7, E2EOrder[arrivals + 1], 10 * E2EOrder[arrivals + 1],
                          MSG_DATA, dl)
    \/ RecvError
    \/ Interrupt
    \/ Drain
    \/ Summary

SpecE2E == InitE2E /\ [][NextE2E]_vars

\* ------------------------------------------------------------------------
\* SpecReorder: one device whose packets carry send times 10, 20, 30 in any
\* arrival order, with timeouts, under flush thresholds 0..2
\* ------------------------------------------------------------------------
ReorderSendTimes == {10, 20, 30}

InitReorder == InitWith(Thresholds, {DiedAfter})

NextReorder ==
    \/ LivenessCheck
    \/ RecvTimeout
    \/ \E ts \in ReorderSendTimes, dl \in Deltas :
          /\ arrivals < MaxReorderArrivals
          /\ RecvDatagram(7, arrivals + 1, ts, MSG_DATA, dl)
    \/ RecvError
    \/ Interrupt
    \/ Drain
    \/ Summary

SpecReorder == InitReorder /\ [][NextReorder]_vars

\* ------------------------------------------------------------------------
\* Sessions: one device sends DATA with repeated sequence numbers and INIT
\* messages in any order, so an INIT can follow counted duplicates and find
\* packets of the old session still pending
\* ------------------------------------------------------------------------
InitSession == InitWith({0, 1, 2}, {LIVENESS_TIMEOUT})

NextSession ==
    \/ LivenessCheck
    \/ \E s \in Seqs :
          /\ arrivals < MaxSessionArrivals
          /\ RecvDatagram(7, s, arrivals + 1, MSG_DATA, 0)
    \/ /\ arrivals < MaxSessionArrivals
       /\ RecvDatagram(7, 0, arrivals + 1, MSG_INIT, 0)
    \/ RecvError
    \/ Interrupt
    \/ Drain
    \/ Summary

SpecSession == InitSession /\ [][NextSession]_vars

\* ------------------------------------------------------------------------
\* SpecLive: the loop keeps running among two devices that send at any moment
\* or fall silent.  The thread always reaches its next statement: the sweep at
\* the top of the loop is executed, and recvfrom returns, with a datagram or
\* after SOCKET_TIMEOUT.
\* ------------------------------------------------------------------------
InitLive == InitWith({0, 1}, {DiedAfter})

Receive ==
    \/ RecvTimeout
    \/ \E d \in Devices, dl \in Deltas :
          /\ arrivals < MaxLiveArrivals
          /\ RecvDatagram(d, arrivals + 1, 10 * (arrivals + 1), MSG_DATA, dl)

NextLive ==
    \/ LivenessCheck
    \/ Receive

SpecLive == InitLive /\ [][NextLive]_vars /\ WF_vars(LivenessCheck) /\ WF_vars(Receive)

\* ------------------------------------------------------------------------
\* SpecParse: datagrams as bytes.  A heartbeat of device 7 and a batch of one
\* reading of device 1001 arrive as the client built them; other datagrams are
\* too short or carry a checksum that does not match.
\* ------------------------------------------------------------------------
\* The floats 25.0, 50.0 and 3.3, packed big-endian
Reading == << 65, 200, 0, 0, 66, 72, 0, 0, 64, 83, 51, 51 >>

GoodDatagrams ==
    { create_heartbeat_packet(7, 1, 10),
      create_batch_data_packet(1001, 2, 20, << Reading >>) }

\* Five bytes; a heartbeat cut after the first checksum byte; a heartbeat of
\* device 7 and one of the unknown device 9, each with a checksum of 0
BadDatagrams ==
    { << 0, 7, 0, 1, 0 >>,
      SubSeq(create_heartbeat_packet(7, 1, 10), 1, HEADER_SIZE + 1),
      PackHeader(7, 3, 30, MSG_HEARTBEAT) \o << 0, 0 >>,
      PackHeader(9, 1, 10, MSG_HEARTBEAT) \o << 0, 0 >> }

InitParse == InitWith({1}, {DiedAfter})

NextParse ==
    \/ LivenessCheck
    \/ RecvTimeout
    \/ \E data \in GoodDatagrams :
          arrivals < MaxParseArrivals /\ Recv(data, 0)
    \/ \E data \in BadDatagrams :
          Len(dropped) < MaxDropped /\ Recv(data, 0)

SpecParse == InitParse /\ [][NextParse]_vars

\* ------------------------------------------------------------------------
\* SpecFlip: the client's datagrams arrive intact, until one arrives with one
\* byte outside the checksum field changed on the way, which ends the run
\* ------------------------------------------------------------------------
\* What is added (mod 256) to the byte that changes
FlipDeltas == {1, 128, 255}

\* The positions of a datagram outside its checksum field
FlipPositions(data) == (1..Len(data)) \ {HEADER_SIZE + 1, HEADER_SIZE + 2}

Flipped(data, pos, dv) == [data EXCEPT ![pos] = (@ + dv) % 256]

InitFlip == InitWith({0}, {LIVENESS_TIMEOUT})

NextFlip ==
    \/ LivenessCheck
    \/ \E data \in GoodDatagrams :
          /\ arrivals < MaxFlipArrivals
          /\ dropped = << >>
          /\ Recv(data, 0)
    \/ \E data \in GoodDatagrams : \E pos \in FlipPositions(data), dv \in FlipDeltas :
          /\ dropped = << >>
          /\ Recv(Flipped(data, pos, dv), 0)

SpecFlip == InitFlip /\ [][NextFlip]_vars

\* ------------------------------------------------------------------------
\* SpecLatency: the latency pre-calculation on relative-ms values from all
\* over 0..2^32 - 1: around 0, 2^16, 2^31 and 2^32 - 1
\* ------------------------------------------------------------------------
RelativeMs == {0, 1, 32767, 32768, 65535} \X {0, 5, 11, 65530, 65535}

InitLatency == InitWith({DEFAULT_FLUSH_THRESHOLD}, {LIVENESS_TIMEOUT})

NextLatency == \E receiver \in RelativeMs, sender \in RelativeMs : PreCalculation(receiver, sender)

SpecLatency == InitLatency /\ [][NextLatency]_vars

\* ------------------------------------------------------------------------
\* SpecSignal: one device sends DATA in order while SIGINT or SIGTERM can be
\* delivered between two iterations, inside the threshold flush, inside the
\* forced flush of the liveness check and inside the shutdown drain
\* ------------------------------------------------------------------------
InitSignal == InitWith({0, 1}, {DiedAfter})

NextSignal ==
    \/ LivenessCheck
    \/ RecvTimeout
    \/ \E dl \in Deltas :
          /\ arrivals < MaxSignalArrivals
          /\ RecvDatagram(7, arrivals + 1, 10 * (arrivals + 1), MSG_DATA, dl)
    \/ Interrupt
    \/ \E dl \in Deltas, at \in InterruptPoints :
          /\ arrivals < MaxSignalArrivals
          /\ InterruptInFlush(7, arrivals + 1, 10 * (arrivals + 1), MSG_DATA, dl, at)
    \/ \E d \in DOMAIN devices_state, at \in InterruptPoints : InterruptInSweep(d, at)
    \/ Drain
    \/ \E i \in 1..Len(dev_order), n \in 0..MaxSignalArrivals, at \in InterruptPoints :
          InterruptInDrain(i, n, at)
    \/ Summary

SpecSignal == InitSignal /\ [][NextSignal]_vars

\* ------------------------------------------------------------------------
\* SpecPayload: device 7 sends, under one sequence number, heartbeats, INIT
\* messages and DATA datagrams whose count byte, complete readings and
\* trailing bytes vary independently; one datagram with a wrong checksum
\* ------------------------------------------------------------------------
\* A datagram whose checksum matches its header and payload (Server.py:224-233)
Sealed(header, payload) ==
    header \o PackChecksum(client_compute_checksum(header \o payload)) \o payload

Reading2 == << 65, 204, 0, 0, 66, 76, 0, 0, 64, 86, 102, 102 >>

Counts == 0..3

ReadingsSent == { << >>, << Reading >>, << Reading, Reading2 >> }

Trailing == { << >>, << 65, 208, 0, 0, 66 >> }

Payloads ==
    { << >> } \cup
    { << count >> \o Concat(rs) \o tr :
         count \in Counts, rs \in ReadingsSent, tr \in Trailing }

PayloadDatagrams ==
    { Sealed(PackHeader(7, 1, 10, MSG_DATA), payload) : payload \in Payloads }
    \cup { create_heartbeat_packet(7, 1, 10),
           Sealed(PackHeader(7, 1, 10, MSG_INIT), << >>),
           Sealed(PackHeader(7, 1, 10, MSG_HEARTBEAT), << 2 >> \o Reading) }

\* A DATA datagram that lost its last reading after the checksum was computed
CutDatagram ==
    LET data == create_batch_data_packet(7, 1, 10, << Reading, Reading2 >>)
    IN SubSeq(data, 1, Len(data) - 12)

InitPayload == InitWith({0, 1}, {LIVENESS_TIMEOUT})

NextPayload ==
    \/ LivenessCheck
    \/ \E data \in PayloadDatagrams :
          arrivals < MaxPayloadArrivals /\ Recv(data, 0)
    \/ dropped = << >> /\ Recv(CutDatagram, 0)
    \/ RecvError
    \/ Interrupt
    \/ Drain
    \/ Summary

SpecPayload == InitPayload /\ [][NextPayload]_vars

\* ========================================================================
\* Claims
\* ========================================================================

\* C1: last_processed_seq only advances forward in wraparound-aware terms:
\* finalizing a non-duplicate packet whose sequence is older than the last
\* finalized one, without tripping the wraparound threshold (a LateArrival),
\* leaves last_processed_seq unchanged.
C1_LateArrivalKeepsLast ==
    \A i \in 1..Len(finalized) :
        LET r == finalized[i] IN
        (/\ ~r.duplicate
         /\ r.last_before # None
         /\ r.seq - r.last_before < 0
         /\ r.seq - r.last_before >= -WRAP_THRESHOLD)
        => r.last_after = r.last_before

\* C2: a sequence number that has already been finalized for a device is never
\* afterwards among the sequence numbers a later packet's gap_count counts as
\* missing (those between last_processed_seq and the packet's sequence).
C2_GapNeverCountsFinalized ==
    \A j \in 1..Len(finalized) : \A i \in 1..(j - 1) :
        LET a == finalized[i]
            b == finalized[j]
        IN (a.device_id = b.device_id /\ b.gap_detected)
           => ~(b.last_before < a.seq /\ a.seq < b.seq)

\* C7: when the last finalized sequence s1 is below the sequence s2 of the next
\* packet finalized, that packet gets gap_count = s2 - s1 - 1, its gap flag is
\* set exactly when the count is positive, the gaps counter grows by the count
\* and last_processed_seq becomes s2.
C7_GapCountBetween ==
    \A i \in 1..Len(finalized) :
        LET r == finalized[i] IN
        (r.last_before # None /\ r.last_before < r.seq)
        => /\ r.gap_count = r.seq - r.last_before - 1
           /\ r.gap_detected <=> (r.gap_count > 0)
           /\ r.gaps_after = r.gaps_before + r.gap_count
           /\ r.last_after = r.seq

\* C3: a device restart is not misread as a gap: consecutive sequence numbers,
\* an INIT, then consecutive low sequence numbers, all delivered once and in
\* send order, leave the device's gaps counter at 0 under every flush threshold.
C3_RestartCountsNoGap ==
    \A d \in DOMAIN devices_state : devices_state[d].stats.gaps = 0

\* Non-duplicate finalizations of the device of row n strictly between rows i and n
AppendsBetween(i, n) ==
    Cardinality({k \in (i + 1)..(n - 1) :
                    finalized[k].device_id = finalized[n].device_id
                    /\ ~finalized[k].duplicate})

\* C4 as stated: the packet finalized last, when its sequence number was already
\* finalized for its device, is classified Duplicate however many other packets
\* were finalized in between (every finalization is the last one of some state:
\* under threshold 0 a step finalizes at most one packet).
C4_RefinalizedIsDuplicate ==
    LET n == Len(finalized) IN
    \A i \in 1..(n - 1) :
        (finalized[i].device_id = finalized[n].device_id
         /\ finalized[i].seq = finalized[n].seq)
        => finalized[n].duplicate

\* C4 amended: the packet finalized last is classified Duplicate when its
\* sequence number was finalized as a non-duplicate before and fewer than 500
\* non-duplicate packets of the device were finalized in between.
C4_RefinalizedWithinHistory ==
    LET n == Len(finalized) IN
    \A i \in 1..(n - 1) :
        (/\ finalized[i].device_id = finalized[n].device_id
         /\ finalized[i].seq = finalized[n].seq
         /\ ~finalized[i].duplicate
         /\ AppendsBetween(i, n) < HISTORY_MAXLEN)
        => finalized[n].duplicate

\* C4 witness: a duplicate found with 499 other sequence numbers finalized
\* since its first finalization
C4_Witness ==
    LET n == Len(finalized) IN
    /\ n > 1
    /\ finalized[n].duplicate
    /\ \E i \in 1..(n - 1) :
          /\ finalized[i].seq = finalized[n].seq
          /\ ~finalized[i].duplicate
          /\ AppendsBetween(i, n) = HISTORY_MAXLEN - 1

\* C5 as stated: a non-duplicate packet with sequence 2 finalized when
\* last_processed_seq is 65535 reports no gap (flag false, gap_count 0, gaps
\* counter unchanged) and last_processed_seq becomes 2.
C5_WrapToTwoNoGap ==
    \A i \in 1..Len(finalized) :
        LET r == finalized[i] IN
        (~r.duplicate /\ r.last_before = 65535 /\ r.seq = 2)
        => /\ ~r.gap_detected
           /\ r.gap_count = 0
           /\ r.gaps_after = r.gaps_before
           /\ r.last_after = 2

\* C5 amended: that packet reports a gap of 2 (sequences 0 and 1), the gaps
\* counter grows by 2 and last_processed_seq becomes 2.
C5_WrapToTwoGapOfTwo ==
    \A i \in 1..Len(finalized) :
        LET r == finalized[i] IN
        (~r.duplicate /\ r.last_before = 65535 /\ r.seq = 2)
        => /\ r.gap_detected
           /\ r.gap_count = 2
           /\ r.gaps_after = r.gaps_before + 2
           /\ r.last_after = 2

\* C5 witness: sequence 2 was finalized right after 65535
C5_Witness ==
    \E i \in 1..Len(finalized) :
        /\ ~finalized[i].duplicate
        /\ finalized[i].last_before = 65535
        /\ finalized[i].seq = 2

\* C6: for a non-duplicate sequence s finalized at last_processed_seq L with
\* s - L < -30000, real_diff = s + 65536 - L; a gap with gap_count =
\* real_diff - 1 is reported exactly when real_diff > 1, none when real_diff = 1,
\* and last_processed_seq becomes s in both cases.
C6_WraparoundGap ==
    \A i \in 1..Len(finalized) :
        LET r == finalized[i]
            real_diff == r.seq + 65536 - r.last_before
        IN (~r.duplicate /\ r.last_before # None /\ r.seq - r.last_before < -30000)
           => /\ real_diff > 1 => /\ r.gap_detected
                                  /\ r.gap_count = real_diff - 1
                                  /\ r.gaps_after = r.gaps_before + real_diff - 1
              /\ real_diff = 1 => /\ ~r.gap_detected
                                  /\ r.gap_count = 0
                                  /\ r.gaps_after = r.gaps_before
              /\ r.last_after = r.seq

\* C6 witness: one device went 65535 -> 0 (real_diff 1) and later wrapped again
\* over missing sequence numbers (real_diff > 1)
C6_Witness ==
    \E i, j \in 1..Len(finalized) :
        /\ ~finalized[i].duplicate
        /\ finalized[i].last_before = 65535
        /\ finalized[i].seq = 0
        /\ ~finalized[j].duplicate
        /\ finalized[j].last_before # None
        /\ finalized[j].seq - finalized[j].last_before < -30000
        /\ finalized[j].gap_count > 0

\* The sequence numbers of the finalized packets, in finalization order
FinalizedSeqs == [i \in 1..Len(finalized) |-> finalized[i].seq]

\* C8 as stated: once sequences 1, 2, 4, 3 have arrived in that order under the
\* default flush threshold and the server has shut down, the packets were
\* finalized in the order 1, 2, 3, 4 and the summary reports no gap and no
\* duplicate.
C8_LateThreeAbsorbed ==
    (pc = "done" /\ arrivals = 4)
    => /\ FinalizedSeqs = << 1, 2, 3, 4 >>
       /\ summary[7].gaps = 0
       /\ summary[7].duplicates = 0

\* C8 amended: the same, provided the liveness monitor did not force-flush the
\* device's buffer before all four datagrams had arrived.
C8_LateThreeAbsorbedUnlessTimedOut ==
    (/\ pc = "done"
     /\ arrivals = 4
     /\ \A i \in 1..Len(finalized) :
           finalized[i].status = "Flushed (Timeout)" => finalized[i].fin_at = 4)
    => /\ FinalizedSeqs = << 1, 2, 3, 4 >>
       /\ summary[7].gaps = 0
       /\ summary[7].duplicates = 0

\* C8 witness: the four packets waited in the buffer until the shutdown drain
C8_Witness ==
    /\ pc = "done"
    /\ arrivals = 4
    /\ flush_threshold = 20
    /\ Len(finalized) = 4
    /\ \A i \in 1..4 : finalized[i].status = "Flushed" /\ finalized[i].seq = i
    /\ [i \in 1..4 |-> finalized[i].arrival_no] = << 1, 2, 4, 3 >>

\* Rows i < j of one device whose packets were in the pending buffer at the
\* same time: the one that arrived first was not finalized before the other
\* arrived
CoResident(i, j) ==
    LET a == finalized[i]
        b == finalized[j]
    IN /\ a.device_id = b.device_id
       /\ a.arrival_no < b.arrival_no => a.fin_at >= b.arrival_no

\* C9: per device, packets that were in the pending buffer at the same time are
\* finalized in non-decreasing send_time order, whatever their arrival order
\* and whichever flush finalizes them.
C9_BufferedFinalizedBySendTime ==
    \A j \in 1..Len(finalized) : \A i \in 1..(j - 1) :
        CoResident(i, j)
        => finalized[i].timestamp_sent <= finalized[j].timestamp_sent

\* C9 witness: send times 10, 30, 20 arrived in that order under threshold 2
\* and were finalized as 10, 20, 30: the first by the threshold flush when the
\* third arrived, the other two by the liveness flush
C9_Witness ==
    /\ flush_threshold = 2
    /\ Len(finalized) = 3
    /\ [i \in 1..3 |-> finalized[i].timestamp_sent] = << 10, 20, 30 >>
    /\ [i \in 1..3 |-> finalized[i].arrival_no] = << 1, 3, 2 >>
    /\ \A i \in 1..3 : finalized[i].fin_at = 3
    /\ finalized[1].status = "Buffered"
    /\ finalized[2].status = "Flushed (Timeout)"
    /\ finalized[3].status = "Flushed (Timeout)"

\* The finalized records of one device
RowsOf(d) == SelectSeq(finalized, LAMBDA r : r.device_id = d)

NewRows == SubSeq(finalized', Len(finalized) + 1, Len(finalized'))

NewAlerts == SubSeq(console', Len(console) + 1, Len(console'))

\* The step accepts a datagram of device d
Accepts(d) ==
    /\ Len(datagrams') = Len(datagrams) + 1
    /\ datagrams'[Len(datagrams')].device_id = d

\* C11: in the step in which a device goes from alive to dead (a liveness
\* sweep), every packet of its pending buffer is finalized, in non-decreasing
\* send_time order and tagged "Flushed (Timeout)", and the buffer is left
\* empty, whatever the flush threshold.
C11_DeadFlushesWholeBuffer ==
    [][\A d \in DOMAIN devices_state :
          (devices_state[d].status_alive /\ ~devices_state'[d].status_alive)
          => LET buf  == devices_state[d].buffer
                 rows == SelectSeq(NewRows, LAMBDA r : r.device_id = d)
             IN /\ pc = "sweep"
                /\ devices_state'[d].buffer = << >>
                /\ Len(rows) = Len(buf)
                /\ {rows[i].arrival_no : i \in 1..Len(rows)}
                      = {buf[i].arrival_no : i \in 1..Len(buf)}
                /\ \A i \in 1..(Len(rows) - 1) :
                      rows[i].timestamp_sent <= rows[i + 1].timestamp_sent
                /\ \A i \in 1..Len(rows) : rows[i].status = "Flushed (Timeout)"
      ]_vars

\* C11 witness: under threshold 2 a device held two packets, which had arrived
\* against their send order, when the sweep marked it dead; both were finalized
\* in send order and the buffer is empty
C11_Witness ==
    /\ flush_threshold = 2
    /\ 7 \in DOMAIN devices_state
    /\ ~devices_state[7].status_alive
    /\ devices_state[7].buffer = << >>
    /\ Len(finalized) = 2
    /\ \A i \in 1..2 : /\ finalized[i].status = "Flushed (Timeout)"
                       /\ finalized[i].device_id = 7
    /\ finalized[1].arrival_no = 2
    /\ finalized[2].arrival_no = 1
    /\ finalized[1].timestamp_sent < finalized[2].timestamp_sent

\* The OFFLINE alerts about device d among the given alerts
OfflineAlerts(alerts, d) ==
    SelectSeq(alerts, LAMBDA a : a.msg = "OFFLINE" /\ a.device_id = d)

\* C12: a device goes from alive to dead only in a liveness sweep at which
\* now - last_seen exceeds the liveness timeout, with one OFFLINE alert; the
\* alert is printed only at that transition; a sweep leaves a dead device as it
\* is, without alert or flush; and a dead device becomes alive again only in a
\* step that accepts a datagram from it.
C12_DeadOncePerSilence ==
    [][\A d \in DOMAIN devices_state :
          LET before == devices_state[d]
              after  == devices_state'[d]
              alerts == Len(OfflineAlerts(NewAlerts, d))
          IN /\ (before.status_alive /\ ~after.status_alive)
                => /\ pc = "sweep"
                   /\ now - before.last_seen > liveness_timeout_client
                   /\ alerts = 1
             /\ alerts > 0 => (before.status_alive /\ ~after.status_alive)
             /\ (~before.status_alive /\ pc = "sweep")
                => /\ after = before
                   /\ \A i \in 1..Len(NewRows) : NewRows[i].device_id # d
             /\ (~before.status_alive /\ after.status_alive) => Accepts(d)
      ]_vars

\* C12 witness: a device was marked dead, a later sweep has seen it still
\* silent, and one OFFLINE alert was printed about it
C12_Witness ==
    /\ pc = "recv"
    /\ 7 \in DOMAIN devices_state
    /\ ~devices_state[7].status_alive
    /\ now - devices_state[7].last_seen = liveness_timeout_client + 2
    /\ Len(OfflineAlerts(console, 7)) = 1

\* The number of datagrams accepted from device d
Heard(d) == Cardinality({i \in 1..arrivals : datagrams[i].device_id = d})

AliveDevice(d) == d \in DOMAIN devices_state /\ devices_state[d].status_alive

DeadDevice(d) == d \in DOMAIN devices_state /\ ~devices_state[d].status_alive

\* An alive device whose silence exceeds the liveness timeout
Overdue(d) ==
    /\ AliveDevice(d)
    /\ now - devices_state[d].last_seen > liveness_timeout_client

\* C13: a known device that stays silent is eventually marked dead.  The loop
\* never waits in recvfrom with an alive device whose silence exceeds the
\* liveness timeout (the sweep before it has marked the device dead), whether
\* or not other devices keep sending; and in the end no known device is left
\* alive whose last datagram is older than the liveness timeout allows (for
\* silences whose deadline the clock of the model can pass).
C13_SilentEventuallyDead ==
    /\ [](pc = "recv" => \A d \in Devices : ~Overdue(d))
    /\ <>[](\A d \in Devices :
               AliveDevice(d)
               => devices_state[d].last_seen + liveness_timeout_client >= MaxTime)

\* C13 witness: device 7 was marked dead while device 1001, heard after 7's
\* last datagram, is alive
C13_Witness ==
    /\ DeadDevice(7)
    /\ AliveDevice(1001)
    /\ arrivals > 1
    /\ datagrams[arrivals].device_id = 1001
    /\ Heard(7) > 0

\* C14: in the very step that accepts a datagram (one that passed the length
\* and checksum checks) the device it names is alive and its last_seen is the
\* datagram's arrival time, whether the device was dead, alive or unknown
\* before; no liveness sweep is involved.
C14_HeardDeviceIsAlive ==
    [][Len(datagrams') = Len(datagrams) + 1
       => LET d == datagrams'[Len(datagrams')].device_id
          IN /\ pc = "recv"
             /\ d \in DOMAIN devices_state'
             /\ devices_state'[d].status_alive
             /\ devices_state'[d].last_seen = now'
      ]_vars

\* C14 witness: device 7 was marked dead and a datagram from it has just been
\* accepted: before the next sweep it is alive again, last seen now
C14_Witness ==
    /\ pc = "sweep"
    /\ arrivals = 2
    /\ datagrams[2].device_id = 7
    /\ console = << [msg |-> "OFFLINE", device_id |-> 7],
                    [msg |-> "BACK ONLINE", device_id |-> 7] >>
    /\ devices_state[7].status_alive
    /\ devices_state[7].last_seen = now

\* The checksum failures printed so far
ChecksumFails == SelectSeq(console, LAMBDA a : a.msg = "Checksum fail")

\* C15: no datagram is dropped without being counted: the number of datagrams
\* recvfrom returned (accepted or rejected) equals the number of outcomes on
\* record (one buffered or logged packet per accepted datagram, one printed
\* checksum failure per datagram rejected).
C15_EveryDatagramCounted ==
    arrivals + Len(dropped) = arrivals + Len(ChecksumFails)

\* C16: a step that rejects a datagram (too short, or checksum mismatch)
\* creates no device entry and changes no device's state, finalizes nothing
\* and returns to the top of the loop.
C16_RejectedChangesNoState ==
    [][Len(dropped') = Len(dropped) + 1
       => /\ devices_state' = devices_state
          /\ dev_order' = dev_order
          /\ finalized' = finalized
          /\ datagrams' = datagrams
          /\ pc' = "sweep"
      ]_vars

\* C16 witness: with device 7 known, marked dead, a datagram too short and a
\* datagram naming the unknown device 9 with a wrong checksum were rejected:
\* 7 is still dead and 9 is still unknown
C16_Witness ==
    /\ Len(dropped) = 2
    /\ dropped[1].reason = "short"
    /\ dropped[2].reason = "checksum"
    /\ UnpackHeader(dropped[2].data).device_id = 9
    /\ DOMAIN devices_state = {7}
    /\ ~devices_state[7].status_alive
    /\ devices_state[7].last_seen < now

\* C17: after every step each pending buffer holds at most flush_threshold
\* packets; a step that accepts a datagram into a buffer of n - 1 packets
\* finalizes exactly the n - flush_threshold packets with the smallest send
\* times (none when n is at or below the threshold), in send_time order, and
\* leaves the others in the buffer.
C17_BufferWithinThreshold ==
    [][/\ \A d \in DOMAIN devices_state' :
             Len(devices_state'[d].buffer) <= flush_threshold
       /\ Len(datagrams') = Len(datagrams) + 1
          => LET d    == datagrams'[Len(datagrams')].device_id
                 n    == 1 + (IF d \in DOMAIN devices_state
                              THEN Len(devices_state[d].buffer) ELSE 0)
                 left == devices_state'[d].buffer
             IN /\ Len(NewRows) = Max(0, n - flush_threshold)
                /\ Len(left) = n - Len(NewRows)
                /\ \A i \in 1..Len(NewRows) :
                      /\ NewRows[i].device_id = d
                      /\ NewRows[i].status = "Buffered"
                      /\ \A j \in 1..Len(left) :
                            NewRows[i].timestamp_sent <= left[j].timestamp_sent
                /\ \A i \in 1..(Len(NewRows) - 1) :
                      NewRows[i].timestamp_sent <= NewRows[i + 1].timestamp_sent
      ]_vars

\* C17 witness: under threshold 1 the first arrival was kept without a flush;
\* the second, with the smaller send time, made the buffer too long and was
\* itself popped and finalized, the first is still pending
C17_Witness ==
    /\ flush_threshold = 1
    /\ arrivals = 2
    /\ Len(finalized) = 1
    /\ finalized[1].status = "Buffered"
    /\ finalized[1].arrival_no = 2
    /\ finalized[1].device_id = 7
    /\ Len(devices_state[7].buffer) = 1
    /\ devices_state[7].buffer[1].arrival_no = 1
    /\ finalized[1].timestamp_sent < devices_state[7].buffer[1].timestamp_sent

\* C18: in every state every device's pending buffer is sorted in
\* non-decreasing send_time.
C18_BufferSorted ==
    \A d \in DOMAIN devices_state :
        LET buf == devices_state[d].buffer IN
        \A i \in 1..(Len(buf) - 1) : buf[i].timestamp_sent <= buf[i + 1].timestamp_sent

\* C18 witness: a buffer of two packets that arrived against their send order
\* and are pending in send order
C18_Witness ==
    /\ pc = "sweep"
    /\ 7 \in DOMAIN devices_state
    /\ Len(devices_state[7].buffer) = 2
    /\ devices_state[7].buffer[1].arrival_no = 2
    /\ devices_state[7].buffer[2].arrival_no = 1
    /\ devices_state[7].buffer[1].timestamp_sent < devices_state[7].buffer[2].timestamp_sent

\* C19: for each packet as the client serializes it, with any single byte
\* outside the checksum field changed to a different value, a step in which
\* the server receives it is a rejection for checksum mismatch: the datagram is
\* dropped and not accepted.
C19_FlippedByteRejected ==
    [][\A data \in GoodDatagrams : \A pos \in FlipPositions(data), dv \in FlipDeltas :
          Recv(Flipped(data, pos, dv), 0)
          => /\ Len(dropped') = Len(dropped) + 1
             /\ dropped'[Len(dropped')].reason = "checksum"
             /\ datagrams' = datagrams
             /\ devices_state' = devices_state
      ]_vars

\* C19 witness: the batch of device 1001 was accepted as sent, and the same
\* batch with its last payload byte changed was rejected for its checksum
C19_Witness ==
    /\ arrivals = 1
    /\ datagrams[1].device_id = 1001
    /\ Len(dropped) = 1
    /\ dropped[1].data = Flipped(create_batch_data_packet(1001, 2, 20, << Reading >>), 24, 1)
    /\ dropped[1].reason = "checksum"

\* C20: with receiver and sender relative-ms values r and s in 0..2^32 - 1 and
\* d = r - s: latency_ms = d + 2^32 when d < -2^31 (that is s > r + 2^31),
\* latency_ms = 0 when -2^31 <= d < 0, latency_ms = d when d >= 0 (that is
\* s + latency_ms = r); latency_ms is never negative.
C20_LatencyWraparound ==
    calc # << >>
    => LET r == calc.arrival_ms_masked
           s == calc.ts_sent
           L == calc.latency_ms
       IN /\ L[1] >= 0
          /\ L[2] \in 0..65535
          /\ WordsLess(WordsAdd(r, << 32768, 0 >>), s)
             => WordsAdd(s, L) = WordsAdd(r, << 65536, 0 >>)
          /\ (~WordsLess(WordsAdd(r, << 32768, 0 >>), s) /\ WordsLess(r, s))
             => L = << 0, 0 >>
          /\ ~WordsLess(r, s) => WordsAdd(s, L) = r

\* C20 witness: sender 4294967290 and receiver 5 give a latency of 11
C20_Witness ==
    /\ calc # << >>
    /\ calc.ts_sent = << 65535, 65530 >>
    /\ calc.arrival_ms_masked = << 0, 5 >>
    /\ calc.latency_ms = << 0, 11 >>

\* ------------------------------------------------------------------------
\* Jitter
\* ------------------------------------------------------------------------
\* The arrival before arrival k from the same device, 0 when k is its first
PrevArrival(k) ==
    LET same == {i \in 1..(k - 1) : datagrams[i].device_id = datagrams[k].device_id}
    IN IF same = {} THEN 0 ELSE CHOOSE i \in same : \A j \in same : j <= i

\* C21: the jitter of a device's first sample is 0, and the jitter of every
\* later sample is the absolute difference between its latency and the
\* device's previous latency, a previous latency of 0 included
C21_JitterAgainstPrevious ==
    \A k \in 1..arrivals :
        datagrams[k].jitter =
            IF PrevArrival(k) = 0 THEN 0
            ELSE Abs(datagrams[k].latency - datagrams[PrevArrival(k)].latency)

\* The finalized record before record j from the same device, 0 when j is its first
PrevFinalized(j) ==
    LET same == {i \in 1..(j - 1) : finalized[i].device_id = finalized[j].device_id}
    IN IF same = {} THEN 0 ELSE CHOOSE i \in same : \A k \in same : k <= i

\* C22: the jitter recorded for a finalized packet is the absolute difference
\* between its latency and the latency of the packet finalized just before it
\* for the same device, also when the buffer finalizes packets in another order
\* than they arrived in
C22_JitterInFinalizationOrder ==
    \A j \in 1..Len(finalized) :
        PrevFinalized(j) # 0 =>
            finalized[j].jitter =
                Abs(finalized[j].latency - finalized[PrevFinalized(j)].latency)

\* ------------------------------------------------------------------------
\* INIT and the sequence tracker
\* ------------------------------------------------------------------------
\* Arrival k is an INIT message
IsInit(k) == datagrams[k].msg_type = MSG_INIT

\* The records of arrival k's device finalized since arrival k, the records
\* of that arrival's own iteration included
FinalizedSince(k) ==
    {j \in 1..Len(finalized) :
        /\ finalized[j].device_id = datagrams[k].device_id
        /\ finalized[j].fin_at >= k}

\* C23: an INIT message resets the device's sequence tracking on arrival
\* (history empty, last_processed_seq None, duplicates 0): the first packet
\* finalized for the device afterwards is treated as first-ever, neither a gap
\* nor a duplicate, and until one is finalized the tracker stays reset
C23_InitResetsTracking ==
    \A k \in 1..arrivals :
        IsInit(k) =>
            IF FinalizedSince(k) = {}
            THEN LET st == devices_state[datagrams[k].device_id]
                 IN /\ st.processed_seqs = << >>
                    /\ st.last_processed_seq = None
                    /\ st.stats.duplicates = 0
            ELSE LET j == CHOOSE i \in FinalizedSince(k) :
                              \A h \in FinalizedSince(k) : i <= h
                 IN /\ finalized[j].last_before = None
                    /\ ~finalized[j].duplicate
                    /\ ~finalized[j].gap_detected
                    /\ finalized[j].gap_count = 0
                    /\ finalized[j].dups_after = 0

\* An INIT arrived after a duplicate had been counted, and the first packet
\* finalized afterwards is one of the old session that repeats a sequence
\* number finalized before the INIT
C23_Witness ==
    \E k \in 1..arrivals :
        /\ IsInit(k)
        /\ \E j \in FinalizedSince(k), i \in 1..Len(finalized) :
              /\ \A h \in FinalizedSince(k) : j <= h
              /\ finalized[j].arrival_no < k
              /\ finalized[i].fin_at < k
              /\ finalized[i].dups_after > 0
              /\ finalized[i].seq = finalized[j].seq

\* ------------------------------------------------------------------------
\* Frame conditions of a finalization
\* ------------------------------------------------------------------------
\* The tracker of device d before the step; a device not yet known has the
\* tracker of a new entry
Before(d) ==
    IF d \in DOMAIN devices_state THEN devices_state[d] ELSE NewDeviceState(0)

\* C24: finalizing a packet classified Duplicate leaves last_processed_seq, the
\* history and the gaps counter unchanged, reports no gap and adds exactly 1
\* to the duplicates counter; every other finalization appends the packet's
\* sequence number to the history
C24_DuplicateFrame ==
    [][Len(NewRows) = 1 =>
         LET r == NewRows[1]
             b == Before(r.device_id)
             a == devices_state'[r.device_id]
         IN IF r.duplicate
            THEN /\ a.last_processed_seq = b.last_processed_seq
                 /\ a.processed_seqs = b.processed_seqs
                 /\ a.stats.gaps = b.stats.gaps
                 /\ ~r.gap_detected
                 /\ r.gap_count = 0
                 /\ a.stats.duplicates = b.stats.duplicates + 1
            ELSE a.processed_seqs =
                     Append(IF Len(b.processed_seqs) < HISTORY_MAXLEN
                            THEN b.processed_seqs ELSE Tail(b.processed_seqs),
                            r.seq)]_vars

\* A duplicate was finalized while last_processed_seq held another sequence
\* number and gaps had been counted
C24_Witness ==
    \E j \in 1..Len(finalized) :
        /\ finalized[j].duplicate
        /\ finalized[j].last_before # finalized[j].seq
        /\ finalized[j].last_after = finalized[j].last_before
        /\ finalized[j].gaps_before > 0
        /\ finalized[j].gaps_after = finalized[j].gaps_before

\* C25: accepting a datagram of one device (receiving, buffering and whatever
\* the threshold flush finalizes) leaves every field of every other device's
\* state unchanged and finalizes no packet of another device
C25_DevicesIndependent ==
    [][\A a \in DOMAIN devices_state' :
          Accepts(a) =>
              /\ \A b \in DOMAIN devices_state \ {a} :
                    devices_state'[b] = devices_state[b]
              /\ \A i \in 1..Len(NewRows) : NewRows[i].device_id = a]_vars

\* A datagram of one device was accepted while another device, heard earlier,
\* holds a pending packet and its own last latency and last_seen
C25_Witness ==
    /\ arrivals >= 2
    /\ \E b \in DOMAIN devices_state :
          LET a == datagrams[arrivals].device_id
          IN /\ a # b
             /\ devices_state[b].buffer # << >>
             /\ devices_state[b].last_seen < devices_state[a].last_seen
             /\ devices_state[b].last_latency # devices_state[a].last_latency

\* The arrival number of device d's latest INIT, 0 when it has sent none
LastInit(d) ==
    LET inits == {k \in 1..arrivals : IsInit(k) /\ datagrams[k].device_id = d}
    IN IF inits = {} THEN 0 ELSE CHOOSE k \in inits : \A h \in inits : h <= k

\* C26: every sequence number in a device's history is the sequence number of
\* a packet already finalized for that device since its last INIT; a packet
\* that is only pending contributes nothing
C26_HistoryIsFinalized ==
    \A d \in DOMAIN devices_state :
        \A i \in 1..Len(devices_state[d].processed_seqs) :
            \E j \in 1..Len(finalized) :
                /\ finalized[j].device_id = d
                /\ finalized[j].seq = devices_state[d].processed_seqs[i]
                /\ finalized[j].fin_at >= LastInit(d)

\* After an INIT the history holds a sequence number again, a packet with
\* another sequence number is pending, and a sequence number finalized before
\* the INIT is no longer in the history
C26_Witness ==
    \E d \in DOMAIN devices_state :
        LET st == devices_state[d]
        IN /\ LastInit(d) > 0
           /\ st.processed_seqs # << >>
           /\ \E i \in 1..Len(st.buffer) : ~InSeq(st.processed_seqs, st.buffer[i].seq)
           /\ \E j \in 1..Len(finalized) :
                 /\ finalized[j].device_id = d
                 /\ finalized[j].fin_at < LastInit(d)
                 /\ ~InSeq(st.processed_seqs, finalized[j].seq)

\* ------------------------------------------------------------------------
\* Payload and persistence
\* ------------------------------------------------------------------------
\* The packets of arrival k, pending or finalized
PacketsOf(k) ==
    LET d == datagrams[k].device_id
    IN { devices_state[d].buffer[i] : i \in { i \in 1..Len(devices_state[d].buffer) :
                                      devices_state[d].buffer[i].arrival_no = k } }

RecordsOf(k) == { j \in 1..Len(finalized) : finalized[j].arrival_no = k }

\* The complete 12-byte readings of a payload, at most as many as it declares
FittingReadings(payload) ==
    LET count == payload[1]
        whole == (Len(payload) - 1) \div 12
        n     == IF count < whole THEN count ELSE whole
    IN [i \in 1..n |-> SubSeq(payload, 2 + 12 * (i - 1), 1 + 12 * i)]

\* C27: a checksum-valid DATA datagram is not dropped, whatever its count byte
\* declares: it is accepted (pending, or finalized once the flush took it) with
\* exactly the complete 12-byte readings that fit, min(count,
\* floor((payload_length - 1) / 12)) of them, the rest being skipped
C27_ShortPayloadKeepsWholeReadings ==
    /\ \A i \in 1..Len(dropped) : dropped[i].reason # "none"
    /\ \A k \in 1..arrivals :
          (datagrams[k].msg_type = MSG_DATA /\ datagrams[k].payload # << >>) =>
              LET want == FittingReadings(datagrams[k].payload)
              IN /\ PacketsOf(k) # {} \/ RecordsOf(k) # {}
                 /\ \A p \in PacketsOf(k) : p.readings = want
                 /\ \A j \in RecordsOf(k) : finalized[j].readings = want

\* A DATA datagram that declares 3 readings and carries 2 and 5 more bytes was
\* accepted and is pending with the 2 readings
C27_Witness ==
    \E k \in 1..arrivals :
        /\ datagrams[k].msg_type = MSG_DATA
        /\ datagrams[k].payload = << 3 >> \o Reading \o Reading2 \o << 65, 208, 0, 0, 66 >>
        /\ \E p \in PacketsOf(k) : p.readings = << Reading, Reading2 >>

\* C28: every finalized packet, duplicates included, appends records to the
\* CSV: one per parsed reading when it has readings, and exactly one, with
\* zero readings values, when it has none (HEARTBEAT, INIT, empty DATA); the
\* records already written are never changed
C28_RecordsPerReading ==
    [][/\ Len(finalized') >= Len(finalized)
       /\ SubSeq(finalized', 1, Len(finalized)) = finalized
       /\ \A i \in 1..Len(NewRows) :
             LET r == NewRows[i]
             IN IF Len(r.readings) >= 1
                THEN /\ Len(r.logged) = Len(r.readings)
                     /\ \A n \in 1..Len(r.readings) : r.logged[n] = r.readings[n]
                ELSE r.logged = << ZeroReading >>]_vars

\* A heartbeat was written as one record of zeros, and after it a duplicate
\* DATA packet with two readings as two records
C28_Witness ==
    \E i, j \in 1..Len(finalized) :
        /\ i < j
        /\ finalized[i].msg_type = "HEARTBEAT"
        /\ finalized[i].logged = << ZeroReading >>
        /\ finalized[j].duplicate
        /\ finalized[j].logged = << Reading, Reading2 >>

\* ------------------------------------------------------------------------
\* Signals
\* ------------------------------------------------------------------------
\* C29: every datagram accepted into a device's buffer is finalized exactly
\* once over the process lifetime, wherever the interrupt or terminate signal
\* is delivered - between popping a packet and persisting it, and inside the
\* shutdown drain, included - and so the summary is reported and its received
\* total of each device is the number of datagrams accepted from it
C29_FinalizedExactlyOnce ==
    pc \in {"done", "killed"}
    => /\ \A k \in 1..arrivals : Cardinality(RecordsOf(k)) = 1
       /\ pc = "done"
       /\ \A d \in DOMAIN devices_state :
             summary[d].received =
                 Cardinality({k \in 1..arrivals : datagrams[k].device_id = d})

\* ------------------------------------------------------------------------
\* The tracker's invariant
\* ------------------------------------------------------------------------
\* C30: for every device, last_processed_seq is None exactly when the history
\* is empty; otherwise it is the element appended to the history last; the
\* history holds at most 500 elements and no sequence number twice
C30_TrackerConsistent ==
    \A d \in DOMAIN devices_state :
        LET h    == devices_state[d].processed_seqs
            last == devices_state[d].last_processed_seq
        IN /\ (last = None) <=> (h = << >>)
           /\ h # << >> => last = h[Len(h)]
           /\ Len(h) <= HISTORY_MAXLEN
           /\ Cardinality({h[i] : i \in 1..Len(h)}) = Len(h)

\* The history is full, its oldest sequence number was evicted and, sent
\* again, appended as the newest, which last_processed_seq now holds
C30_Witness ==
    \E d \in DOMAIN devices_state :
        LET h == devices_state[d].processed_seqs
        IN /\ Len(h) = HISTORY_MAXLEN
           /\ h[HISTORY_MAXLEN] < h[1]
           /\ devices_state[d].last_processed_seq = h[HISTORY_MAXLEN]

\* ------------------------------------------------------------------------
\* Dead devices
\* ------------------------------------------------------------------------
\* C31: while the loop runs, after the liveness sweep as before it, every
\* device whose status is dead has an empty pending buffer: the dead
\* transition empties the buffer, and an arrival sets the device alive before
\* its packet is appended
C31_DeadDeviceHoldsNothing ==
    pc \in {"recv", "sweep"}
    => \A d \in DOMAIN devices_state :
          ~devices_state[d].status_alive => devices_state[d].buffer = << >>

\* After a sweep one device is dead with an empty buffer, its pending packet
\* having been finalized by the forced flush, while another device is alive
\* and holds a pending packet
C31_Witness ==
    /\ pc = "recv"
    /\ \E d, e \in DOMAIN devices_state :
          /\ ~devices_state[d].status_alive
          /\ devices_state[d].buffer = << >>
          /\ \E j \in 1..Len(finalized) :
                /\ finalized[j].device_id = d
                /\ finalized[j].status = "Flushed (Timeout)"
          /\ devices_state[e].status_alive
          /\ devices_state[e].buffer # << >>

============================================================================
